---- MODULE Spec2Model ----
(***************************************************************************)
(* Model of phobos/operators/selection.py: the five selection operators    *)
(* (Select-by-type, Select-by-name, Goto-object, Select-root, Select-model)*)
(* and the register()/unregister() lifecycle functions, run against a      *)
(* host scene graph (scenes, objects, layers, selection, active object).   *)
(* Every operator's execute() runs to completion on the host's main        *)
(* thread, so each is one atomic action.                                   *)
(***************************************************************************)
EXTENDS Integers, Sequences, FiniteSets, TLC

\* ------------------------------------------------------------------ bounds
\* Number of layers a scene has (20 in the host; bounded here).
NumLayers == 2

\* ------------------------------------------------------- the host's universe
Layers == 1..NumLayers

\* Objects of bpy.data.objects, identified by name, in the host's iteration order.
ObjOrder == <<"a", "ab", "b", "ba">>
Objects == {ObjOrder[i] : i \in 1..Len(ObjOrder)}

\* bpy.data.scenes, in the host's iteration order.
SceneOrder == <<"s1", "s2">>
Scenes == {SceneOrder[i] : i \in 1..Len(SceneOrder)}

None == "None"
NoProp == "NoProp"

\* The characters of the strings the model uses (object names, name fragments).
Chars(s) ==
    CASE s = "" -> <<>>
      [] s = "a" -> <<"a">>
      [] s = "b" -> <<"b">>
      [] s = "ab" -> <<"a", "b">>
      [] s = "ba" -> <<"b", "a">>

\* Inputs of the operators' properties.
Phobostypes == {"link", "visual"}
Fragments == {"", "a", "ba"}
ModelNames == {"m1", "m2"}
ModelArgs == {""} \cup ModelNames
Modes == {"OBJECT", "EDIT"}

\* The operator classes this file defines.
OperatorClasses ==
    {"SelectObjectsByPhobosType", "SelectObjectsByName", "GotoObjectOperator",
     "SelectRootOperator", "SelectModelOperator"}

\* The properties each operator class declares (what self.<name> resolves).
ClassAttrs(cls) ==
    CASE cls = "SelectObjectsByPhobosType" -> {"seltype"}
      [] cls = "SelectObjectsByName" -> {"namefragment"}
      [] cls = "GotoObjectOperator" -> {"objectname"}
      [] cls = "SelectRootOperator" -> {}
      [] cls = "SelectModelOperator" -> {"modelname"}

\* inspect.getmembers(module): the module's members, sorted by name, with
\* what each one is.
ModuleMembers ==
    << [name |-> "EnumProperty", kind |-> "function"],
       [name |-> "GotoObjectOperator", kind |-> "class"],
       [name |-> "Operator", kind |-> "class"],
       [name |-> "SelectModelOperator", kind |-> "class"],
       [name |-> "SelectObjectsByName", kind |-> "class"],
       [name |-> "SelectObjectsByPhobosType", kind |-> "class"],
       [name |-> "SelectRootOperator", kind |-> "class"],
       [name |-> "StringProperty", kind |-> "function"],
       [name |-> "bUtils", kind |-> "module"],
       [name |-> "bpy", kind |-> "module"],
       [name |-> "defs", kind |-> "module"],
       [name |-> "inspect", kind |-> "module"],
       [name |-> "log", kind |-> "function"],
       [name |-> "register", kind |-> "function"],
       [name |-> "sUtils", kind |-> "module"],
       [name |-> "sys", kind |-> "module"],
       [name |-> "unregister", kind |-> "function"] >>

\* Classes that belong to the host itself (bpy.types.Operator).
HostTypes == {"Operator"}

VARIABLES
    \* the scene graph (read, never written, by this file)
    sceneObjs,      \* scene -> the objects linked into it (scene.objects)
    sceneProps,     \* scene -> the keys of its custom (ID) properties
    objLayers,      \* object -> the layers it is on
    parent,         \* object -> its parent, or None
    phobostype,     \* object -> its phobostype tag
    objModelname,   \* object -> its "modelname" custom property, or NoProp
    \* the host's view state (written through the utilities)
    activeScene,    \* context.scene
    visLayers,      \* scene -> its visible layers (scene.layers)
    selected,       \* the selection set (context.selected_objects)
    activeObj,      \* scene -> scene.objects.active, or None
    mode,           \* context.mode
    \* the host's class registry
    registered,     \* classes registered with bpy.utils
    handed,         \* classes passed to (un)register_class by the last call
    \* the last operation and what the host observed of it
    lastOp, arg, status, errLogged, switched, pre

graph == <<sceneObjs, sceneProps, objLayers, parent, phobostype, objModelname>>
view == <<activeScene, visLayers, selected, activeObj, mode>>
registry == <<registered, handed>>
obs == <<lastOp, arg, status, errLogged, switched, pre>>
vars == <<graph, view, registry, obs>>

Range(s) == {s[i] : i \in 1..Len(s)}

\* list(S) for a set of objects: its members in the host's order.
ListOf(S) == SelectSeq(ObjOrder, LAMBDA o : o \in S)

Snapshot ==
    [scene |-> activeScene, layers |-> visLayers, selected |-> selected,
     active |-> activeObj, mode |-> mode]

\* ------------------------------------------------ results of an execute()
\* What one execute() leaves behind: the host's view state, the status set
\* handed back ("EXCEPTION" when the call raised instead of returning),
\* whether an ERROR message went to the log, and whether switchToScene ran.
Outcome(sc, layers, sel, act, st, err, sw) ==
    [scene |-> sc, layers |-> layers, selected |-> sel, active |-> act,
     status |-> st, err |-> err, switched |-> sw]

Untouched(st, err) ==
    Outcome(activeScene, visLayers, selected, activeObj, st, err, FALSE)

\* -------------------------------------------- phobos.utils (collaborators)
\* bUtils.switchToScene(name): the named scene becomes the context's scene.
switchToScene(scenename) == scenename

\* bUtils.setObjectLayersActive(obj, extendlayers): the context scene's visible
\* layers are extended by (or cut down to) the layers of obj.
setObjectLayersActive(layers, sc, obj, extendlayers) ==
    [layers EXCEPT ![sc] = IF extendlayers THEN @ \cup objLayers[obj]
                                           ELSE @ \cap objLayers[obj]]

\* sUtils.selectObjects(objects, clear, active): select the listed objects, after
\* deselecting everything when clear; objects[active] becomes the active object
\* when active >= 0.
selectObjects(sel, act, sc, objects, clear, active) ==
    [selected |-> (IF clear THEN {} ELSE sel) \cup Range(objects),
     active |-> IF active >= 0 THEN [act EXCEPT ![sc] = objects[active + 1]]
                ELSE act]

\* sUtils.getObjectsByPhobostypes(types): the context scene's objects of those types.
getObjectsByPhobostypes(types) ==
    SelectSeq(ObjOrder, LAMBDA o : o \in sceneObjs[activeScene] /\ phobostype[o] \in types)

\* Substring containment on character sequences.
Contains(hay, frag) ==
    \E i \in 0..(Len(hay) - Len(frag)) : SubSeq(hay, i + 1, i + Len(frag)) = frag

\* sUtils.selectByName(fragment): the selection becomes the scene's objects whose
\* name contains the fragment.
selectByName(fragment) ==
    {o \in sceneObjs[activeScene] : Contains(Chars(o), Chars(fragment))}

\* sUtils.getRoot(obj): the topmost ancestor of obj.
RECURSIVE getRoot(_)
getRoot(obj) == IF parent[obj] = None THEN obj ELSE getRoot(parent[obj])

\* sUtils.getRoots(): the root objects of the context scene.
getRoots == SelectSeq(ObjOrder, LAMBDA o : o \in sceneObjs[activeScene] /\ parent[o] = None)

\* sUtils.getChildren(root): the descendants of root in the context scene.
getChildren(root) ==
    SelectSeq(ObjOrder, LAMBDA o : /\ o \in sceneObjs[activeScene]
                                  /\ o # root
                                  /\ getRoot(o) = root)

\* ------------------------------------------------ SelectObjectsByPhobosType
SelectByTypePoll == mode = "OBJECT"

SelectByTypeNoClear(seltype) ==
    LET s == selectObjects(selected, activeObj, activeScene,
                           getObjectsByPhobostypes({seltype}), FALSE, -1)
    IN  Outcome(activeScene, visLayers, s.selected, s.active, "FINISHED", FALSE, FALSE)

SelectByTypeExecute(seltype) ==
    LET s == selectObjects(selected, activeObj, activeScene,
                           getObjectsByPhobostypes({seltype}), TRUE, -1)
    IN  Outcome(activeScene, visLayers, s.selected, s.active, "FINISHED", FALSE, FALSE)

\* ------------------------------------------------------ SelectObjectsByName
\* The class defines no poll(): the host's default lets it run anywhere.
SelectByNamePoll == TRUE

SelectByNameExecute(namefragment) ==
    Outcome(activeScene, visLayers, selectByName(namefragment), activeObj,
            "FINISHED", FALSE, FALSE)

\* ------------------------------------------------------- GotoObjectOperator
\* poll returns context.scene.objects: true when the scene holds an object.
GotoObjectPoll == sceneObjs[activeScene] # {}

\* `name in context.scene`: the host answers membership on a scene by its
\* custom properties, not by its objects.
InContextScene(name) == name \in sceneProps[activeScene]

\* The for/else loop over bpy.data.scenes: the first scene holding the object.
RECURSIVE FindScene(_, _)
FindScene(i, objectname) ==
    IF i > Len(SceneOrder) THEN None
    ELSE IF objectname \in sceneObjs[SceneOrder[i]] THEN SceneOrder[i]
    ELSE FindScene(i + 1, objectname)

GotoSelectNoLayers(sc, objectname, sw) ==
    IF objectname \notin sceneObjs[sc]
    THEN Outcome(sc, visLayers, selected, activeObj, "EXCEPTION", FALSE, sw)
    ELSE LET s == selectObjects(selected, activeObj, sc, <<objectname>>, TRUE, 0)
         IN  Outcome(sc, visLayers, s.selected, s.active, "FINISHED", FALSE, sw)

\* Lines 111-115, run with sc as context.scene: context.scene.objects[name]
\* raises KeyError when the scene does not hold the object.
GotoSelect(sc, objectname, sw) ==
    IF objectname \notin sceneObjs[sc]
    THEN Outcome(sc, visLayers, selected, activeObj, "EXCEPTION", FALSE, sw)
    ELSE LET layers == setObjectLayersActive(visLayers, sc, objectname, TRUE)
             s == selectObjects(selected, activeObj, sc, <<objectname>>, TRUE, 0)
         IN  Outcome(sc, layers, s.selected, s.active, "FINISHED", FALSE, sw)

GotoObjectExecute(objectname) ==
    IF ~InContextScene(objectname)
    THEN LET scene == FindScene(1, objectname)
         IN  IF scene = None
             THEN Untouched("CANCELLED", TRUE)
             ELSE GotoSelect(switchToScene(scene), objectname, TRUE)
    ELSE GotoSelect(activeScene, objectname, FALSE)

\* ------------------------------------------------------- SelectRootOperator
SelectRootPollAlways == TRUE

SelectRootPoll == Cardinality(selected) > 0

\* The set built by lines 125-129.
SelectedRoots == {getRoot(obj) : obj \in selected}

\* Line 134 reads self.objectname, which SelectRootOperator does not declare:
\* the read raises AttributeError before anything is changed, and lines 137-138
\* (select the roots, make the first one active) are not reached.
SelectRootExecute ==
    LET roots == SelectedRoots
    IN  IF roots # {}
        THEN IF "objectname" \notin ClassAttrs("SelectRootOperator")
             THEN Untouched("EXCEPTION", FALSE)
             ELSE LET s == selectObjects(selected, activeObj, activeScene,
                                         ListOf(roots), TRUE, 0)
                  IN  Outcome(activeScene, visLayers, s.selected, s.active,
                              "FINISHED", FALSE, FALSE)
        ELSE Untouched("FINISHED", TRUE)

\* ------------------------------------------------------ SelectModelOperator
\* The class defines no poll().
SelectModelPoll == TRUE

\* Lines 164-166: each root's ["modelname"] is read (KeyError when the root has
\* no such property); a match assigns that root's children to selection.
RECURSIVE NamedLoop(_, _, _)
NamedLoop(roots, modelname, selection) ==
    IF roots = <<>> THEN [raised |-> FALSE, selection |-> selection]
    ELSE LET root == Head(roots)
         IN  IF objModelname[root] = NoProp
             THEN [raised |-> TRUE, selection |-> selection]
             ELSE NamedLoop(Tail(roots), modelname,
                            IF objModelname[root] = modelname
                            THEN getChildren(root) ELSE selection)

RECURSIVE DerivedLoopAssign(_, _)
DerivedLoopAssign(roots, selection) ==
    IF roots = <<>> THEN selection
    ELSE DerivedLoopAssign(Tail(roots), getChildren(Head(roots)))

\* Lines 172-173: selection is extended by each root's children.
RECURSIVE DerivedLoop(_, _)
DerivedLoop(roots, selection) ==
    IF roots = <<>> THEN selection
    ELSE DerivedLoop(Tail(roots), selection \o getChildren(Head(roots)))

SelectModelExecute(modelname) ==
    IF modelname # ""
    THEN LET r == NamedLoop(getRoots, modelname, <<>>)
         IN  IF r.raised THEN Untouched("EXCEPTION", FALSE)
             ELSE LET s == selectObjects(selected, activeObj, activeScene,
                                         r.selection, TRUE, -1)
                  IN  Outcome(activeScene, visLayers, s.selected, s.active,
                              "FINISHED", FALSE, FALSE)
    ELSE LET selection == DerivedLoop(ListOf(SelectedRoots), <<>>)
             s == selectObjects(selected, activeObj, activeScene, selection, TRUE, -1)
         IN  Outcome(activeScene, visLayers, s.selected, s.active,
                     "FINISHED", FALSE, FALSE)

\* ---------------------------------------------------- register / unregister
\* inspect.getmembers(module, inspect.isclass): the names of the class members.
RECURSIVE ClassMembers(_)
ClassMembers(members) ==
    IF members = <<>> THEN <<>>
    ELSE (IF Head(members).kind = "class" THEN <<Head(members).name>> ELSE <<>>)
         \o ClassMembers(Tail(members))

\* The loop of register(): each class is handed to bpy.utils.register_class.
\* Handed one of its own types, the host either raises (hostRejects) or takes it.
RECURSIVE RegisterLoop(_, _, _, _)
RegisterLoop(classes, reg, done, hostRejects) ==
    IF classes = <<>> THEN [registered |-> reg, handed |-> done, raised |-> FALSE]
    ELSE LET c == Head(classes)
         IN  IF c \in HostTypes /\ hostRejects
             THEN [registered |-> reg, handed |-> Append(done, c), raised |-> TRUE]
             ELSE RegisterLoop(Tail(classes), reg \cup {c}, Append(done, c), hostRejects)

\* The loop of unregister(): each class is handed to bpy.utils.unregister_class,
\* which raises for a class that is not registered.
RECURSIVE UnregisterLoop(_, _, _)
UnregisterLoop(classes, reg, done) ==
    IF classes = <<>> THEN [registered |-> reg, handed |-> done, raised |-> FALSE]
    ELSE LET c == Head(classes)
         IN  IF c \notin reg
             THEN [registered |-> reg, handed |-> Append(done, c), raised |-> TRUE]
             ELSE UnregisterLoop(Tail(classes), reg \ {c}, Append(done, c))

\* ------------------------------------------------------------------ actions
\* The host runs an operator's execute() and takes over its outcome.
Apply(op, a, r) ==
    /\ activeScene' = r.scene
    /\ visLayers' = r.layers
    /\ selected' = r.selected
    /\ activeObj' = r.active
    /\ status' = r.status
    /\ errLogged' = r.err
    /\ switched' = r.switched
    /\ lastOp' = op
    /\ arg' = a
    /\ pre' = Snapshot
    /\ UNCHANGED <<graph, mode, registry>>

SelectByType ==
    \E seltype \in Phobostypes :
        /\ "SelectObjectsByPhobosType" \in registered
        /\ SelectByTypePoll
        /\ Apply("SelectObjectsByPhobosType", seltype, SelectByTypeExecute(seltype))

SelectByName ==
    \E namefragment \in Fragments :
        /\ "SelectObjectsByName" \in registered
        /\ SelectByNamePoll
        /\ Apply("SelectObjectsByName", namefragment, SelectByNameExecute(namefragment))

GotoObject ==
    \E objectname \in Objects :
        /\ "GotoObjectOperator" \in registered
        /\ GotoObjectPoll
        /\ Apply("GotoObjectOperator", objectname, GotoObjectExecute(objectname))

SelectRoot ==
    /\ "SelectRootOperator" \in registered
    /\ SelectRootPoll
    /\ Apply("SelectRootOperator", "", SelectRootExecute)

SelectModel ==
    \E modelname \in ModelArgs :
        /\ "SelectModelOperator" \in registered
        /\ SelectModelPoll
        /\ Apply("SelectModelOperator", modelname, SelectModelExecute(modelname))

Lifecycle(op, r) ==
    /\ registered' = r.registered
    /\ handed' = r.handed
    /\ lastOp' = op
    /\ arg' = ""
    /\ status' = IF r.raised THEN "EXCEPTION" ELSE "RETURNED"
    /\ errLogged' = FALSE
    /\ switched' = FALSE
    /\ pre' = Snapshot
    /\ UNCHANGED <<graph, view>>

\* The host enables the add-on.
Register ==
    /\ registered = {}
    /\ \E hostRejects \in BOOLEAN :
           Lifecycle("register",
                     RegisterLoop(ClassMembers(ModuleMembers), registered, <<>>, hostRejects))

\* The host disables the add-on.
Unregister ==
    /\ registered # {}
    /\ Lifecycle("unregister",
                 UnregisterLoop(ClassMembers(ModuleMembers), registered, <<>>))

\* ------------------------------------------------------------ initial states
\* Parent assignments without cycles.
RECURSIVE Reaches(_, _, _, _)
Reaches(p, o, target, fuel) ==
    IF p[o] = None \/ fuel = 0 THEN FALSE
    ELSE p[o] = target \/ Reaches(p, p[o], target, fuel - 1)

Forests ==
    {p \in [Objects -> Objects \cup {None}] :
        \A o \in Objects : ~Reaches(p, o, o, Cardinality(Objects))}

\* A freshly opened file: first layer visible, no active object, nothing run.
InitView ==
    /\ activeScene \in Scenes
    /\ selected \in SUBSET sceneObjs[activeScene]
    /\ visLayers = [s \in Scenes |-> {1}]
    /\ activeObj = [s \in Scenes |-> None]
    /\ lastOp = "none" /\ arg = "" /\ status = "none"
    /\ errLogged = FALSE /\ switched = FALSE
    /\ handed = <<>>
    /\ pre = Snapshot

\* Objects that the two-scene layouts link into scenes; the remaining object
\* of bpy.data.objects is linked into no scene there.
Linkable == Objects \ {"ba"}

\* Scene layouts: objects linked into scenes freely, on any layer, scenes with
\* or without a custom property named like object "a"; a flat hierarchy.
InitGoto ==
    /\ sceneObjs \in [Scenes -> SUBSET Linkable]
    /\ sceneProps \in [Scenes -> SUBSET {"a"}]
    /\ objLayers \in {[o \in Objects |-> IF o \in Linkable THEN {f[o]} ELSE {1}] :
                          f \in [Linkable -> Layers]}
    /\ parent = [o \in Objects |-> None]
    /\ phobostype = [o \in Objects |-> "link"]
    /\ objModelname = [o \in Objects |-> NoProp]
    /\ mode = "OBJECT"
    /\ registered = OperatorClasses
    /\ InitView

\* Hierarchies: any forest over the objects, roots with or without a model
\* name, any subset of the objects linked into the first scene.
InitModel ==
    /\ sceneObjs \in {[s \in Scenes |-> IF s = "s1" THEN S ELSE {}] : S \in SUBSET Objects}
    /\ sceneProps = [s \in Scenes |-> {}]
    /\ objLayers = [o \in Objects |-> {1}]
    /\ parent \in Forests
    /\ phobostype = [o \in Objects |-> "link"]
    /\ objModelname \in [Objects -> {NoProp, "m1"}]
    /\ mode = "OBJECT"
    /\ registered = OperatorClasses
    /\ InitView

\* Typed objects in two scenes, in either mode, the add-on not yet enabled.
Init ==
    /\ sceneObjs \in [Scenes -> SUBSET Linkable]
    /\ sceneProps = [s \in Scenes |-> {}]
    /\ objLayers = [o \in Objects |-> {1}]
    /\ parent = [o \in Objects |-> None]
    /\ phobostype \in {[o \in Objects |-> IF o \in Linkable THEN f[o] ELSE "link"] :
                           f \in [Linkable -> Phobostypes]}
    /\ objModelname = [o \in Objects |-> "m1"]
    /\ mode \in Modes
    /\ registered = {}
    /\ InitView

Next ==
    \/ SelectByType
    \/ SelectByName
    \/ GotoObject
    \/ SelectRoot
    \/ SelectModel
    \/ Register
    \/ Unregister

NextGoto == GotoObject

NextModel == SelectRoot \/ SelectModel

Spec == Init /\ [][Next]_vars

SpecGoto == InitGoto /\ [][NextGoto]_vars

SpecModel == InitModel /\ [][NextModel]_vars

TypeOK ==
    /\ activeScene \in Scenes
    /\ selected \subseteq Objects
    /\ visLayers \in [Scenes -> SUBSET Layers]
    /\ activeObj \in [Scenes -> Objects \cup {None}]
    /\ status \in {"none", "FINISHED", "CANCELLED", "EXCEPTION", "RETURNED"}
    /\ registered \subseteq OperatorClasses \cup HostTypes

\* ---------------------------------------------------------------- claims
InAnyScene(name) == \E s \in Scenes : name \in sceneObjs[s]

ViewUntouched ==
    /\ activeScene = pre.scene
    /\ visLayers = pre.layers
    /\ selected = pre.selected
    /\ activeObj = pre.active

\* The roots of the objects selected before the last operation.
PreRoots == {getRoot(o) : o \in pre.selected}

\* The union of the descendants of a set of roots.
DescendantsOf(roots) == UNION {Range(getChildren(r)) : r \in roots}

\* C1: Goto-object with a name that no scene's objects hold logs an error,
\* returns cancelled and changes neither the active scene, the visible layers,
\* the selection nor the active object.
C1_GotoAbsentCancels ==
    (lastOp = "GotoObjectOperator" /\ ~InAnyScene(arg))
        => (status = "CANCELLED" /\ errLogged /\ ViewUntouched)

\* C2: Goto-object with the name of an object of the active scene does not
\* call the scene switch and leaves the active scene as it was.
C2_GotoInActiveSceneNoSwitch ==
    (lastOp = "GotoObjectOperator" /\ arg \in sceneObjs[pre.scene])
        => (~switched /\ activeScene = pre.scene)

\* C3: Select-root with a non-empty selection replaces the selection with the
\* set of roots of the previously selected objects and makes one of them the
\* active object.
C3_SelectRootSelectsRoots ==
    (lastOp = "SelectRootOperator" /\ pre.selected # {})
        => (selected = PreRoots /\ activeObj[activeScene] \in PreRoots)

\* C4: Select-model with a non-empty model name, once it has returned, has
\* replaced the selection with the union of the descendants of every root
\* whose model name equals the argument (empty when no root carries it).
C4_SelectModelNamedUnion ==
    (lastOp = "SelectModelOperator" /\ arg # "" /\ status = "FINISHED")
        => selected = DescendantsOf({r \in Range(getRoots) : objModelname[r] = arg})

\* C5: Select-model with the empty model name finishes and replaces the
\* selection with the union of the descendants of the roots of the objects
\* selected before; with nothing selected the selection ends empty.
C5_SelectModelDerived ==
    (lastOp = "SelectModelOperator" /\ arg = "")
        => /\ status = "FINISHED"
           /\ selected = DescendantsOf(PreRoots)
           /\ (pre.selected = {} => selected = {})

\* C5 witness: two selected objects shared a root, a third had another root
\* with descendants of its own, and the selection changed to the union.
C5_Witness ==
    /\ lastOp = "SelectModelOperator" /\ arg = ""
    /\ \E o1, o2 \in pre.selected : o1 # o2 /\ getRoot(o1) = getRoot(o2)
    /\ \E r1, r2 \in PreRoots : r1 # r2 /\ getChildren(r1) # <<>> /\ getChildren(r2) # <<>>
    /\ selected # {} /\ selected # pre.selected

\* C6: whenever Goto-object returns finished, the active scene holds the
\* named object, the object's layers are visible, the selection is exactly
\* that object and it is the active object.
C6_GotoFinishedState ==
    (lastOp = "GotoObjectOperator" /\ status = "FINISHED")
        => /\ arg \in sceneObjs[activeScene]
           /\ objLayers[arg] \subseteq visLayers[activeScene]
           /\ selected = {arg}
           /\ activeObj[activeScene] = arg

\* C6 witness: the object was found in another scene, on a layer that was
\* not visible there, while something else was selected.
C6_Witness ==
    /\ lastOp = "GotoObjectOperator" /\ status = "FINISHED"
    /\ activeScene # pre.scene
    /\ ~(objLayers[arg] \subseteq pre.layers[activeScene])
    /\ pre.selected # {} /\ arg \notin pre.selected

\* C7: every execution of one of the five operators hands the host a status
\* that is finished or cancelled.
C7_AlwaysReturnsStatus ==
    lastOp \in OperatorClasses => status \in {"FINISHED", "CANCELLED"}

\* C8 as stated: no operator is invoked in a state where the host is neither
\* in object mode nor has an object selected.
C8_InvokedOnlyInModeOrSelection ==
    lastOp \in OperatorClasses => (pre.mode = "OBJECT" \/ pre.selected # {})

\* C8 amended: Select-by-type is invoked only in object mode, Goto-object only
\* when the active scene holds an object, Select-root only with an object
\* selected; Select-by-name and Select-model can be invoked in any state.
C8_PollsGateInvocation ==
    /\ lastOp = "SelectObjectsByPhobosType" => pre.mode = "OBJECT"
    /\ lastOp = "GotoObjectOperator" => sceneObjs[pre.scene] # {}
    /\ lastOp = "SelectRootOperator" => pre.selected # {}
    /\ "SelectObjectsByName" \in registered => ENABLED SelectByName
    /\ "SelectModelOperator" \in registered => ENABLED SelectModel

\* C8 witness: Select-by-name ran outside object mode with nothing selected
\* in an empty scene, where no other poll holds.
C8_Witness ==
    /\ lastOp = "SelectObjectsByName"
    /\ pre.mode # "OBJECT" /\ pre.selected = {} /\ sceneObjs[pre.scene] = {}

\* C9: Select-by-type finishes without an error and leaves selected exactly
\* the active scene's objects whose phobostype is the chosen one (none when
\* none matches).
C9_SelectByTypeExact ==
    lastOp = "SelectObjectsByPhobosType"
        => /\ status = "FINISHED" /\ ~errLogged
           /\ selected = {o \in sceneObjs[activeScene] : phobostype[o] = arg}

\* C9 witness: an object of another type was selected before and is not after,
\* while a matching object became selected.
C9_Witness ==
    /\ lastOp = "SelectObjectsByPhobosType"
    /\ \E o \in pre.selected : phobostype[o] # arg /\ o \notin selected
    /\ \E o \in selected : o \notin pre.selected

\* C10: register() and unregister() hand the host exactly the five operator
\* classes; after register() all five are registered, after unregister() none.
C10_LifecycleHandsFive ==
    /\ lastOp = "register"
           => (Range(handed) = OperatorClasses /\ OperatorClasses \subseteq registered)
    /\ lastOp = "unregister"
           => (Range(handed) = OperatorClasses /\ registered \cap OperatorClasses = {})

====
